---- MODULE Spec2Model ----
(***************************************************************************)
(* Model of mtg-pdf.py: the grid planner compute_grid, the page assembler  *)
(* make_pdf with the calls it makes on the reportlab canvas, and the page  *)
(* count main reports.                                                     *)
(*                                                                         *)
(* Lengths.  The program computes lengths as IEEE doubles in points, every  *)
(* one of them a number of millimetres times the factor mm.  Coordinates   *)
(* (x0, y0, the cell positions, the frame offsets) are kept here at their  *)
(* nominal values, as integers in a unit of half a millimetre (mm = 2), in *)
(* which the halved centring offsets of whole-millimetre inputs are exact. *)
(* The floor divisions that decide rows and cols are computed on the       *)
(* doubles the program forms, bit for bit: at an exact fit the rounded     *)
(* operands can floor to one cell fewer than the nominal lengths would.    *)
(***************************************************************************)
EXTENDS Integers, Sequences, FiniteSets

VARIABLES
    pc,             \* position of the run
    entry,          \* "main": run from main();  "make_pdf": make_pdf called directly
    page_w, page_h, \* paper_size, in length units
    margin_mm, gap_mm, orientation, cropmarks, black_borders,
    images,         \* the ordered image sequence (image ids 1..n)
    unloadable,     \* the images for which c.drawImage raises
    pw, ph, rows, cols, x0, y0, rotated, i, per_page,   \* locals of make_pdf
    idx,            \* the loop's position in images: idx images are done
    ctm,            \* canvas: current transformation matrix of the page state
    pageNumber,     \* canvas: number of showPage calls so far
    ops,            \* canvas: the calls make_pdf made, in order
    warnings,       \* number of [WARN] lines printed
    result,         \* what make_pdf returned
    pages,          \* the page count main reports
    grid, grid_swapped   \* results of the compute_grid calls of SpecGrid

vars == <<pc, entry, page_w, page_h, margin_mm, gap_mm, orientation, cropmarks,
          black_borders, images, unloadable, pw, ph, rows, cols, x0, y0,
          rotated, i, per_page, idx, ctm, pageNumber, ops, warnings, result, pages,
          grid, grid_swapped>>

inputs == <<entry, page_w, page_h, margin_mm, gap_mm, orientation, cropmarks,
            black_borders, images, unloadable>>

locals == <<pw, ph, rows, cols, x0, y0, rotated, i, per_page, idx>>

canvas == <<ctm, pageNumber, ops>>

----------------------------------------------------------------------------
(* Bounds of the model *)

\* make_pdf runs: at most this many images
MaxImages == 5
\* compute_grid calls: page width and height range over 1..MaxPageMM millimetres
MaxPageMM == 180
\* compute_grid calls: margin and gap range over 0..MaxGridMarginMM, 0..MaxGridGapMM
MaxGridMarginMM == 1
MaxGridGapMM == 1

----------------------------------------------------------------------------
(* Program constants *)

\* reportlab.lib.units.mm, the length of a millimetre in length units
mm == 2
CARD_W_MM == 63
CARD_H_MM == 88
\* the defaults margin_mm=5.0 and gap_mm=3.0 of make_pdf and of main's options
DEFAULT_MARGIN_MM == 5
DEFAULT_GAP_MM == 3

Orientations == {"auto", "portrait", "landscape"}

Max(a, b) == IF a >= b THEN a ELSE b

----------------------------------------------------------------------------
(* compute_grid *)

(* IEEE double arithmetic.  A non-negative multiple of 2^-51 (the spacing of
   doubles in [2, 4)) is held exactly as <<a, b, c>>, the integer
   a * 2^42 + b * 2^21 + c counting units of 2^-51, with 0 <= b, c < 2^21
   and 0 <= a < 2^31: every value the program forms from lengths of up to
   3000 mm. *)

Limb == 2^21

\* reportlab.lib.units.mm = 72.0 / 2.54 * 0.1 = 2.834645669291339 as a double:
\* 6383054589973932 * 2^-51
MM_DOUBLE == <<1451, 710059, 710060>>

Norm(a, b, c) ==
    LET b1 == b + (c \div Limb)
    IN  <<a + (b1 \div Limb), b1 % Limb, c % Limb>>

BigMul(X, k) == Norm(X[1] * k, X[2] * k, X[3] * k)
BigAdd(X, Y) == Norm(X[1] + Y[1], X[2] + Y[2], X[3] + Y[3])
\* X - Y for X >= Y
BigSub(X, Y) == Norm(X[1] - Y[1], X[2] - Y[2], X[3] - Y[3])
BigLess(X, Y) ==
    \/ X[1] < Y[1]
    \/ X[1] = Y[1] /\ X[2] < Y[2]
    \/ X[1] = Y[1] /\ X[2] = Y[2] /\ X[3] < Y[3]

\* the number of low bits a value with top limb a has beyond the 53 a double
\* keeps: its bit length less 53, or 0
ExcessBits(a) ==
    IF a < 2^11 THEN 0 ELSE IF a < 2^12 THEN 1 ELSE IF a < 2^13 THEN 2 ELSE
    IF a < 2^14 THEN 3 ELSE IF a < 2^15 THEN 4 ELSE IF a < 2^16 THEN 5 ELSE
    IF a < 2^17 THEN 6 ELSE IF a < 2^18 THEN 7 ELSE IF a < 2^19 THEN 8 ELSE
    IF a < 2^20 THEN 9 ELSE IF a < 2^21 THEN 10 ELSE
    IF a < 2^22 THEN 11 ELSE IF a < 2^23 THEN 12 ELSE
    IF a < 2^24 THEN 13 ELSE IF a < 2^25 THEN 14 ELSE
    IF a < 2^26 THEN 15 ELSE IF a < 2^27 THEN 16 ELSE
    IF a < 2^28 THEN 17 ELSE IF a < 2^29 THEN 18 ELSE
    IF a < 2^30 THEN 19 ELSE 20

\* X with its low bits below p = 2^s cleared, rounded to nearest, ties to even
RoundLow(X, p) ==
    IF p = 1 THEN X
    ELSE LET r == X[3] % p
             up == \/ 2 * r > p
                   \/ 2 * r = p /\ (X[3] \div p) % 2 = 1
         IN  Norm(X[1], X[2], X[3] - r + (IF up THEN p ELSE 0))

\* round to nearest double, ties to even: keep the 53 leading bits
Round53(X) == RoundLow(X, 2^ExcessBits(X[1]))

Signed(n, X) == [neg |-> n, mag |-> X]

\* float(k) * mm for a whole number k of millimetres, 0 <= k <= 3000
FloatMMTable == [k \in 0..3000 |-> Round53(BigMul(MM_DOUBLE, k))]
FloatMM(k) == FloatMMTable[k]

\* x + y and x - y of non-negative doubles
FloatAdd(X, Y) == Round53(BigAdd(X, Y))
FloatSub(X, Y) ==
    IF BigLess(X, Y) THEN Signed(TRUE, Round53(BigSub(Y, X)))
    ELSE Signed(FALSE, Round53(BigSub(X, Y)))

\* s + y for a signed double s and a non-negative double y
FloatAddSigned(S, Y) ==
    IF ~S.neg THEN Signed(FALSE, FloatAdd(S.mag, Y))
    ELSE IF BigLess(Y, S.mag) THEN Signed(TRUE, Round53(BigSub(S.mag, Y)))
    ELSE Signed(FALSE, Round53(BigSub(Y, S.mag)))

\* the largest q >= q0 with q * W <= V, for V >= q0 * W
RECURSIVE FloorQuotient(_, _, _)
FloorQuotient(V, W, q0) ==
    IF BigLess(V, BigMul(W, q0 + 1)) THEN q0 ELSE FloorQuotient(V, W, q0 + 1)

\* the floor of s / w, given q = the floor of |s| / w
SignedFloor(S, W, q) ==
    IF ~S.neg THEN q
    ELSE IF BigMul(W, q) = S.mag THEN -q ELSE -(q + 1)

\* int(s // w) for a signed double s and a double w > 0: Python's float floor
\* division returns the floor of the exact quotient of the two doubles
FloatFloorDiv(S, W) == SignedFloor(S, W, FloorQuotient(S.mag, W, 0))

\* max(1, int((usable + gap_mm*mm) // (card_mm*mm + gap_mm*mm))) with
\* usable = page - margins_mm*mm, the page being page_mm*mm
CellsAlong(page_mm, margins_mm, f_gap_mm, card_mm) ==
    LET usable == FloatSub(FloatMM(page_mm), FloatMM(margins_mm))
    IN  Max(1, FloatFloorDiv(FloatAddSigned(usable, FloatMM(f_gap_mm)),
                             FloatAdd(FloatMM(card_mm), FloatMM(f_gap_mm))))

\* the grid attempt returns for the cols and rows it computed
Centred(a_pw, a_ph, a_gap_mm, a_cols, a_rows) ==
    [rows |-> a_rows,
     cols |-> a_cols,
     x0 |-> (a_pw - (a_cols * CARD_W_MM * mm + (a_cols - 1) * a_gap_mm * mm)) \div 2,
     y0 |-> (a_ph - (a_rows * CARD_H_MM * mm + (a_rows - 1) * a_gap_mm * mm)) \div 2]

\* attempt with the margin taken off one side only
attemptOneMargin(a_pw, a_ph, a_margin_mm, a_gap_mm) ==
    Centred(a_pw, a_ph, a_gap_mm,
            CellsAlong(a_pw \div mm, a_margin_mm, a_gap_mm, CARD_W_MM),
            CellsAlong(a_ph \div mm, a_margin_mm, a_gap_mm, CARD_H_MM))

\* the nested function attempt(pw, ph) of compute_grid; pw and ph are the
\* doubles (pw \div mm) * mm and (ph \div mm) * mm
attempt(a_pw, a_ph, a_margin_mm, a_gap_mm) ==
    Centred(a_pw, a_ph, a_gap_mm,
            CellsAlong(a_pw \div mm, 2 * a_margin_mm, a_gap_mm, CARD_W_MM),
            CellsAlong(a_ph \div mm, 2 * a_margin_mm, a_gap_mm, CARD_H_MM))

WithRotated(g, r) ==
    [rows |-> g.rows, cols |-> g.cols, x0 |-> g.x0, y0 |-> g.y0, rotated |-> r]

\* the comparison "n2 > n1" of the auto branch
LandscapeWinsTies(n1, n2) == n2 >= n1
LandscapeWins(n1, n2) == n2 > n1

\* compute_grid whose auto branch evaluates the landscape grid on the page as given
compute_grid_unswapped(c_page_w, c_page_h, c_margin_mm, c_gap_mm, c_orientation) ==
    IF c_orientation = "portrait"
    THEN WithRotated(attempt(c_page_w, c_page_h, c_margin_mm, c_gap_mm), FALSE)
    ELSE IF c_orientation = "landscape"
    THEN WithRotated(attempt(c_page_h, c_page_w, c_margin_mm, c_gap_mm), TRUE)
    ELSE LET g1 == attempt(c_page_w, c_page_h, c_margin_mm, c_gap_mm)
             g2 == attempt(c_page_w, c_page_h, c_margin_mm, c_gap_mm)
             n1 == g1.rows * g1.cols
             n2 == g2.rows * g2.cols
         IN  IF LandscapeWins(n1, n2)
             THEN WithRotated(g2, TRUE)
             ELSE WithRotated(g1, FALSE)

compute_grid(c_page_w, c_page_h, c_margin_mm, c_gap_mm, c_orientation) ==
    IF c_orientation = "portrait"
    THEN WithRotated(attempt(c_page_w, c_page_h, c_margin_mm, c_gap_mm), FALSE)
    ELSE IF c_orientation = "landscape"
    THEN WithRotated(attempt(c_page_h, c_page_w, c_margin_mm, c_gap_mm), TRUE)
    ELSE LET g1 == attempt(c_page_w, c_page_h, c_margin_mm, c_gap_mm)
             g2 == attempt(c_page_h, c_page_w, c_margin_mm, c_gap_mm)
             n1 == g1.rows * g1.cols
             n2 == g2.rows * g2.cols
         IN  IF LandscapeWins(n1, n2)
             THEN WithRotated(g2, TRUE)
             ELSE WithRotated(g1, FALSE)

NoGrid == [rows |-> 0, cols |-> 0, x0 |-> 0, y0 |-> 0, rotated |-> FALSE]

----------------------------------------------------------------------------
(* The canvas: reportlab's Canvas as make_pdf uses it *)

\* the page state's transformation matrix [a b c d e f] of a fresh page
IdentityCTM == [a |-> 1, b |-> 0, c |-> 0, d |-> 1, e |-> 0, f |-> 0]

\* Canvas.transform: the matrix t is applied in front of the current one
Transform(m, t) ==
    [a |-> t.a * m.a + t.b * m.c,
     b |-> t.a * m.b + t.b * m.d,
     c |-> t.c * m.a + t.d * m.c,
     d |-> t.c * m.b + t.d * m.d,
     e |-> t.e * m.a + t.f * m.c + m.e,
     f |-> t.e * m.b + t.f * m.d + m.f]

\* c.translate(dx, dy)
Translate(m, dx, dy) ==
    Transform(m, [a |-> 1, b |-> 0, c |-> 0, d |-> 1, e |-> dx, f |-> dy])

\* c.rotate(90): cos = 0, sin = 1
Rotate90(m) ==
    Transform(m, [a |-> 0, b |-> 1, c |-> -1, d |-> 0, e |-> 0, f |-> 0])

\* where the page state's matrix puts the user-space point (x, y) on the page
DevicePoint(m, x, y) == <<m.a * x + m.c * y + m.e, m.b * x + m.d * y + m.f>>

\* One entry of the call log.  op is the canvas method or helper called;
\* "openPage" is no call: it marks the entry into the block of a page's first
\* image.  page is the page the call lands on, x and y its coordinate
\* arguments, row and col the grid cell, n the number of primitives a helper
\* draws, dev the page position of (x, y), ok whether drawImage returned.
Op(o_op, o_page, o_img, o_row, o_col, o_x, o_y, o_n, o_dev, o_ok) ==
    [op |-> o_op, page |-> o_page, img |-> o_img, row |-> o_row, col |-> o_col,
     x |-> o_x, y |-> o_y, n |-> o_n, dev |-> o_dev, ok |-> o_ok]

PlainOp(o_op, o_page, o_x, o_y) ==
    Op(o_op, o_page, 0, 0, 0, o_x, o_y, 0, <<0, 0>>, TRUE)

\* the translation offset of the frame: c.translate(0, ph)
FrameOffset(f_pw, f_ph) == <<0, f_ph>>

\* c.translate(0, ph); c.rotate(90): the matrix after, and the calls logged
FrameCTM(m, f_pw, f_ph) ==
    Rotate90(Translate(m, FrameOffset(f_pw, f_ph)[1], FrameOffset(f_pw, f_ph)[2]))

FrameOps(page, f_pw, f_ph) ==
    <<PlainOp("translate", page, FrameOffset(f_pw, f_ph)[1], FrameOffset(f_pw, f_ph)[2]),
      PlainOp("rotate", page, 90, 0)>>

----------------------------------------------------------------------------
(* make_pdf *)

\* the paper sizes of the make_pdf runs, <<width, height>> in millimetres
Papers == {<<80, 110>>, <<80, 145>>, <<145, 200>>, <<200, 145>>}

\* the margins and gaps of the make_pdf runs: none, and the defaults
Margins == {0, DEFAULT_MARGIN_MM}
Gaps == {0, DEFAULT_GAP_MM}

\* w, h, dx, dy of make_pdf
CardW == CARD_W_MM * mm
CardH == CARD_H_MM * mm
Dx(d_gap_mm) == CardW + d_gap_mm * mm
Dy(d_gap_mm) == CardH + d_gap_mm * mm

\* "if i % per_page == 0": the image about to be placed starts a page
AtPageStartSkipsFirst(p_i, p_per_page) == p_i % p_per_page = 0 /\ p_i > 0
AtPageStart(p_i, p_per_page) == p_i % p_per_page = 0

\* slot, row, col, x, y of the image placed at counter value p_i
SlotOfSwapped(p_i, p_rows, p_cols) ==
    LET slot == p_i % (p_rows * p_cols)
    IN  [slot |-> slot, row |-> slot \div p_rows, col |-> slot % p_rows]
SlotOf(p_i, p_rows, p_cols) ==
    LET slot == p_i % (p_rows * p_cols)
    IN  [slot |-> slot, row |-> slot \div p_cols, col |-> slot % p_cols]

CellX(c_x0, c_col, c_gap_mm) == c_x0 + c_col * Dx(c_gap_mm)
CellY(c_y0, c_rows, c_row, c_gap_mm) == c_y0 + (c_rows - 1 - c_row) * Dy(c_gap_mm)

\* "i += 1" after the try block: the counter advances, image drawn or not
NextIOnSuccessOnly(n_i, n_ok) == IF n_ok THEN n_i + 1 ELSE n_i
NextI(n_i, n_ok) == n_i + 1

\* "except Exception": where the loop goes on after c.drawImage
AfterDrawAborts(a_ok) == IF a_ok THEN "loop" ELSE "aborted"
AfterDraw(a_ok) == "loop"

\* the cells "for grid_row in range(rows): for grid_col in range(cols)" visits
CropCellsShort(c_rows, c_cols) ==
    [k \in 1..(c_rows * (c_cols - 1)) |->
        <<(k - 1) \div (c_cols - 1), (k - 1) % (c_cols - 1)>>]
CropCells(c_rows, c_cols) ==
    [k \in 1..(c_rows * c_cols) |-> <<(k - 1) \div c_cols, (k - 1) % c_cols>>]

\* the number of c.rect calls of draw_black_borders
BorderRects(b_rows, b_cols) == 4 + (b_rows - 1) + (b_cols - 1)

\* the number of c.line calls of draw_crop_marks
CropLines == 8

\* the decorator calls of a page, in the order make_pdf makes them
DecorationsFirstPageOnly(d_page, d_borders, d_crop, d_rows, d_cols, d_x0, d_y0, d_gap_mm, d_ctm) ==
    IF d_page > 0 THEN <<>> ELSE
    (IF d_borders
     THEN <<Op("draw_black_borders", d_page, 0, 0, 0, d_x0, d_y0,
               BorderRects(d_rows, d_cols), DevicePoint(d_ctm, d_x0, d_y0), TRUE)>>
     ELSE <<>>)
    \o
    (IF d_crop
     THEN [k \in 1..Len(CropCells(d_rows, d_cols)) |->
            LET cell == CropCells(d_rows, d_cols)[k]
                grid_x == CellX(d_x0, cell[2], d_gap_mm)
                grid_y == CellY(d_y0, d_rows, cell[1], d_gap_mm)
            IN  Op("draw_crop_marks", d_page, 0, cell[1], cell[2], grid_x, grid_y,
                   CropLines, DevicePoint(d_ctm, grid_x, grid_y), TRUE)]
     ELSE <<>>)
Decorations(d_page, d_borders, d_crop, d_rows, d_cols, d_x0, d_y0, d_gap_mm, d_ctm) ==
    (IF d_borders
     THEN <<Op("draw_black_borders", d_page, 0, 0, 0, d_x0, d_y0,
               BorderRects(d_rows, d_cols), DevicePoint(d_ctm, d_x0, d_y0), TRUE)>>
     ELSE <<>>)
    \o
    (IF d_crop
     THEN [k \in 1..Len(CropCells(d_rows, d_cols)) |->
            LET cell == CropCells(d_rows, d_cols)[k]
                grid_x == CellX(d_x0, cell[2], d_gap_mm)
                grid_y == CellY(d_y0, d_rows, cell[1], d_gap_mm)
            IN  Op("draw_crop_marks", d_page, 0, cell[1], cell[2], grid_x, grid_y,
                   CropLines, DevicePoint(d_ctm, grid_x, grid_y), TRUE)]
     ELSE <<>>)

\* math.ceil(total / per_page)
CeilDivFloor(total, c_per_page) == total \div c_per_page
CeilDiv(total, c_per_page) == -((-total) \div c_per_page)

\* all sequences 1, 2, ..., n of image ids
ImageSeq(n) == [k \in 1..n |-> k]

Init ==
    /\ entry \in {"main", "make_pdf"}
    /\ pc = entry
    /\ \E paper \in Papers : page_w = paper[1] * mm /\ page_h = paper[2] * mm
    /\ margin_mm \in Margins
    /\ gap_mm \in Gaps
    /\ orientation \in Orientations
    /\ cropmarks \in BOOLEAN
    /\ black_borders \in BOOLEAN
    /\ \E n \in 0..MaxImages : images = ImageSeq(n) /\ unloadable \in SUBSET (1..n)
    /\ pw = 0 /\ ph = 0 /\ rows = 0 /\ cols = 0 /\ x0 = 0 /\ y0 = 0
    /\ rotated = FALSE /\ i = 0 /\ per_page = 0 /\ idx = 0
    /\ ctm = IdentityCTM /\ pageNumber = 0 /\ ops = <<>>
    /\ warnings = 0 /\ result = <<>> /\ pages = -1
    /\ grid = NoGrid /\ grid_swapped = NoGrid

\* main, "if not imgs: raise SystemExit"
MainNoImages ==
    /\ pc = "main"
    /\ images = <<>>
    /\ pc' = "exit"
    /\ UNCHANGED <<inputs, locals, canvas, warnings, result, pages, grid, grid_swapped>>

\* main up to its call of make_pdf
MainCall ==
    /\ pc = "main"
    /\ images # <<>>
    /\ pc' = "make_pdf"
    /\ UNCHANGED <<inputs, locals, canvas, warnings, result, pages, grid, grid_swapped>>

\* make_pdf from the Canvas construction to "per_page = rows * cols"
Setup ==
    /\ pc = "make_pdf"
    /\ \E g \in {compute_grid(page_w, page_h, margin_mm, gap_mm, orientation)},
          g2 \in {compute_grid(page_h, page_w, margin_mm, gap_mm, "portrait")} :
           /\ rotated' = g.rotated
           /\ IF g.rotated
              THEN /\ ctm' = FrameCTM(ctm, page_w, page_h)
                   /\ ops' = ops \o FrameOps(pageNumber, page_w, page_h)
                   /\ pw' = page_h /\ ph' = page_w
                   /\ rows' = g2.rows /\ cols' = g2.cols
                   /\ x0' = g2.x0 /\ y0' = g2.y0
                   /\ per_page' = g2.rows * g2.cols
              ELSE /\ UNCHANGED <<ctm, ops>>
                   /\ pw' = page_w /\ ph' = page_h
                   /\ rows' = g.rows /\ cols' = g.cols
                   /\ x0' = g.x0 /\ y0' = g.y0
                   /\ per_page' = g.rows * g.cols
    /\ i' = 0 /\ idx' = 0
    /\ pc' = "loop"
    /\ UNCHANGED <<inputs, pageNumber, warnings, result, pages, grid, grid_swapped>>

\* the loop body's "if i % per_page == 0" block up to the frame: the page break
BeginPage ==
    /\ pc = "loop"
    /\ idx < Len(images)
    /\ AtPageStart(i, per_page)
    /\ IF i > 0
       THEN /\ pageNumber' = pageNumber + 1
            /\ ctm' = IF rotated THEN FrameCTM(IdentityCTM, pw, ph) ELSE IdentityCTM
            /\ ops' = ops
                      \o <<PlainOp("openPage", pageNumber + 1, 0, 0),
                           PlainOp("showPage", pageNumber, 0, 0)>>
                      \o (IF rotated THEN FrameOps(pageNumber + 1, pw, ph) ELSE <<>>)
       ELSE /\ ops' = Append(ops, PlainOp("openPage", pageNumber, 0, 0))
            /\ UNCHANGED <<pageNumber, ctm>>
    /\ pc' = "decorate"
    /\ UNCHANGED <<inputs, locals, warnings, result, pages, grid, grid_swapped>>

\* the rest of the block: black borders, then crop marks for every cell
Decorate ==
    /\ pc = "decorate"
    /\ ops' = ops \o Decorations(pageNumber, black_borders, cropmarks, rows, cols,
                                 x0, y0, gap_mm, ctm)
    /\ pc' = "place"
    /\ UNCHANGED <<inputs, locals, ctm, pageNumber, warnings, result, pages,
                   grid, grid_swapped>>

\* the loop body from "slot = i % per_page" to "i += 1"
PlaceImage ==
    /\ \/ pc = "place"
       \/ pc = "loop" /\ idx < Len(images) /\ ~AtPageStart(i, per_page)
    /\ LET img == images[idx + 1]
           s == SlotOf(i, rows, cols)
           x == CellX(x0, s.col, gap_mm)
           y == CellY(y0, rows, s.row, gap_mm)
           ok == img \notin unloadable
       IN  /\ ops' = Append(ops, Op("drawImage", pageNumber, img, s.row, s.col,
                                    x, y, 1, DevicePoint(ctm, x, y), ok))
           /\ warnings' = IF ok THEN warnings ELSE warnings + 1
           /\ i' = NextI(i, ok)
           /\ pc' = AfterDraw(ok)
    /\ idx' = idx + 1
    /\ UNCHANGED <<inputs, pw, ph, rows, cols, x0, y0, rotated, per_page, ctm,
                   pageNumber, result, pages, grid, grid_swapped>>

\* "c.save()" and the return
Save ==
    /\ pc = "loop"
    /\ idx = Len(images)
    /\ ops' = Append(ops, PlainOp("save", pageNumber, 0, 0))
    /\ result' = <<rows, cols, per_page>>
    /\ pc' = IF entry = "main" THEN "report" ELSE "done"
    /\ UNCHANGED <<inputs, locals, ctm, pageNumber, warnings, pages, grid, grid_swapped>>

\* main after make_pdf returned: the page count of the summary line
MainReport ==
    /\ pc = "report"
    /\ pages' = CeilDiv(Len(images), result[3])
    /\ pc' = "done"
    /\ UNCHANGED <<inputs, locals, canvas, warnings, result, grid, grid_swapped>>

Next ==
    \/ MainNoImages
    \/ MainCall
    \/ Setup
    \/ BeginPage
    \/ Decorate
    \/ PlaceImage
    \/ Save
    \/ MainReport

Spec == Init /\ [][Next]_vars

----------------------------------------------------------------------------
(* compute_grid called on a page and on the same page swapped *)

InitGrid ==
    /\ entry = "compute_grid"
    /\ pc = "compute_grid"
    /\ \E w \in 1..MaxPageMM : page_w = w * mm
    /\ \E h \in 1..MaxPageMM : page_h = h * mm
    /\ margin_mm \in 0..MaxGridMarginMM
    /\ gap_mm \in 0..MaxGridGapMM
    /\ orientation \in Orientations
    /\ cropmarks = FALSE /\ black_borders = FALSE
    /\ images = <<>> /\ unloadable = {}
    /\ pw = 0 /\ ph = 0 /\ rows = 0 /\ cols = 0 /\ x0 = 0 /\ y0 = 0
    /\ rotated = FALSE /\ i = 0 /\ per_page = 0 /\ idx = 0
    /\ ctm = IdentityCTM /\ pageNumber = 0 /\ ops = <<>>
    /\ warnings = 0 /\ result = <<>> /\ pages = -1
    /\ grid = NoGrid /\ grid_swapped = NoGrid

\* compute_grid(page_w, page_h, margin_mm, gap_mm, orientation)
GridCall ==
    /\ pc = "compute_grid"
    /\ grid' = compute_grid(page_w, page_h, margin_mm, gap_mm, orientation)
    /\ pc' = "compute_grid_swapped"
    /\ UNCHANGED <<inputs, locals, canvas, warnings, result, pages, grid_swapped>>

\* compute_grid(page_h, page_w, margin_mm, gap_mm, orientation)
GridSwappedCall ==
    /\ pc = "compute_grid_swapped"
    /\ grid_swapped' = compute_grid(page_h, page_w, margin_mm, gap_mm, orientation)
    /\ pc' = "grid_done"
    /\ UNCHANGED <<inputs, locals, canvas, warnings, result, pages, grid>>

NextGrid ==
    \/ GridCall
    \/ GridSwappedCall

SpecGrid == InitGrid /\ [][NextGrid]_vars

GridReturned == entry = "compute_grid" /\ pc # "compute_grid"

\* usable width and height of the page in the orientation the grid g is laid out in
UsableW(g) == (IF g.rotated THEN page_h ELSE page_w) - 2 * margin_mm * mm
UsableH(g) == (IF g.rotated THEN page_w ELSE page_h) - 2 * margin_mm * mm

BlockW(g) == g.cols * CardW + (g.cols - 1) * gap_mm * mm
BlockH(g) == g.rows * CardH + (g.rows - 1) * gap_mm * mm

GridFits(g) ==
    /\ g.rows >= 1 /\ g.cols >= 1
    /\ BlockW(g) <= UsableW(g)
    /\ BlockH(g) <= UsableH(g)

\* C3 as stated: when the usable area of the page as given holds one card
\* (63 wide, 88 high), the grid compute_grid returns, whatever the orientation
\* option, has rows >= 1 and cols >= 1 and its block fits in the usable area
\* of the orientation it chose.
C3_FitsWhenGivenPageHoldsCard ==
    (GridReturned
     /\ page_w - 2 * margin_mm * mm >= CardW
     /\ page_h - 2 * margin_mm * mm >= CardH)
    => GridFits(grid)

\* C3 amended: when the usable area of the orientation compute_grid chose
\* (width and height swapped when rotated) holds one card, the grid has
\* rows >= 1 and cols >= 1 and its block fits in that usable area.
C3_FitsWhenChosenOrientationHoldsCard ==
    (GridReturned /\ UsableW(grid) >= CardW /\ UsableH(grid) >= CardH)
    => GridFits(grid)

\* C3 witness: a landscape grid of two rows on a page whose rotated usable
\* area holds two columns exactly; the floor of the doubles gave one
C3_Witness ==
    /\ GridReturned /\ orientation = "landscape" /\ margin_mm > 0 /\ gap_mm > 0
    /\ grid.rotated /\ grid.rows = 2 /\ grid.cols = 1
    /\ UsableW(grid) >= CardW /\ UsableH(grid) >= CardH
    /\ UsableW(grid) = 2 * CardW + gap_mm * mm

PortraitGrid == attempt(page_w, page_h, margin_mm, gap_mm)
LandscapeGrid == attempt(page_h, page_w, margin_mm, gap_mm)
Cells(g) == g.rows * g.cols

\* C4: with orientation = auto, compute_grid returns the landscape grid with
\* rotated = TRUE only when its rows*cols is strictly greater than the portrait
\* grid's, and otherwise (ties included) the portrait grid with rotated = FALSE.
C4_AutoPicksStrictlyGreater ==
    (GridReturned /\ orientation = "auto")
    => LET p == PortraitGrid
           l == LandscapeGrid
           np == p.rows * p.cols
           nl == l.rows * l.cols
       IN  /\ grid.rotated => (nl > np /\ grid = WithRotated(l, TRUE))
           /\ ~grid.rotated => (nl <= np /\ grid = WithRotated(p, FALSE))
           /\ nl = np => ~grid.rotated

\* C4 witness: a tie between two different grids of more than one cell,
\* resolved to portrait
C4_Witness ==
    /\ GridReturned /\ orientation = "auto"
    /\ Cells(LandscapeGrid) = Cells(PortraitGrid)
    /\ Cells(PortraitGrid) > 1
    /\ LandscapeGrid # PortraitGrid
    /\ grid = WithRotated(PortraitGrid, FALSE)

\* C5 as stated: auto on (H, W) yields the same rows*cols as auto on (W, H),
\* and portrait is chosen for (W, H) if and only if landscape is chosen for
\* (H, W).
C5_SwapSymmetricIff ==
    (pc = "grid_done" /\ orientation = "auto")
    => /\ Cells(grid_swapped) = Cells(grid)
       /\ ~grid.rotated <=> grid_swapped.rotated

\* C5 amended: auto on (H, W) yields the same rows*cols as auto on (W, H);
\* when the portrait and landscape grids of (W, H) differ in rows*cols,
\* portrait is chosen for (W, H) if and only if landscape is chosen for (H, W);
\* when they tie, portrait is chosen for both.
C5_SwapSymmetricUnlessTie ==
    (pc = "grid_done" /\ orientation = "auto")
    => LET p == PortraitGrid
           l == LandscapeGrid
           tie == p.rows * p.cols = l.rows * l.cols
       IN  /\ Cells(grid_swapped) = Cells(grid)
           /\ ~tie => (~grid.rotated <=> grid_swapped.rotated)
           /\ tie => (~grid.rotated /\ ~grid_swapped.rotated)

\* C5 witness: landscape chosen for (W, H), portrait for (H, W), same count
C5_Witness ==
    /\ pc = "grid_done" /\ orientation = "auto"
    /\ grid.rotated /\ ~grid_swapped.rotated
    /\ Cells(grid) = 2 /\ Cells(grid_swapped) = 2

----------------------------------------------------------------------------
(* Properties of make_pdf runs *)

OpsOf(kind) == {k \in 1..Len(ops) : ops[k].op = kind}
OpsOn(kind, page) == {k \in OpsOf(kind) : ops[k].page = page}
Draws == OpsOf("drawImage")
Decorators == OpsOf("draw_black_borders") \cup OpsOf("draw_crop_marks")

PagesOpened == Cardinality(OpsOf("openPage"))
OpenedPages == {ops[k].page : k \in OpsOf("openPage")}
Saved == OpsOf("save") # {}
Returned == pc \in {"report", "done"}
InMakePdf == pc \in {"loop", "decorate", "place", "report", "done"}

\* the pages on which an image has been attempted
DrawnPages == {ops[k].page : k \in Draws}

PageCountMatches ==
    /\ PagesOpened = (IF OpsOf("openPage") = {} THEN 0
                      ELSE 1 + Cardinality(OpsOf("showPage")))
    /\ pc = "loop" => PagesOpened = CeilDiv(idx, per_page)
    /\ Returned => /\ PagesOpened = CeilDiv(Len(images), per_page)
                   /\ OpenedPages = 0..(CeilDiv(Len(images), per_page) - 1)
    /\ (Returned /\ images = <<>>) => PagesOpened = 0
    /\ (pc = "done" /\ entry = "main") => pages = PagesOpened

\* C1 as stated: the pages make_pdf opens number ceil(n / perPage), which is
\* the count main reports; an empty sequence opens no page; and every page
\* opened has an image placed (drawn) on it.
C1_PageCountAndImageOnEveryPage ==
    InMakePdf
    => /\ PageCountMatches
       /\ Returned => \A p \in OpenedPages : \E k \in OpsOn("drawImage", p) : ops[k].ok

\* C1 amended: the pages make_pdf opens number ceil(n / perPage), which is the
\* count main reports; an empty sequence opens no page; and every page opened
\* has a drawImage call made on it (the draw may fail and leave it empty).
C1_PageCountAndDrawOnEveryPage ==
    InMakePdf
    => /\ PageCountMatches
       /\ Returned => \A p \in OpenedPages : OpsOn("drawImage", p) # {}

\* C1 witness: main reports three pages, the last one partly filled
C1_Witness ==
    /\ pc = "done" /\ entry = "main"
    /\ per_page = 2 /\ Len(images) = 5
    /\ PagesOpened = 3 /\ pages = 3

\* the placement the i-th image (k = i, 0-based) gets from the grid alone
PlannedPage(k) == k \div per_page
PlannedRow(k) == (k % per_page) \div cols
PlannedCol(k) == (k % per_page) % cols

\* C2: the i-th image is drawn on page i div perPage at row (i mod perPage)
\* div cols and col (i mod perPage) mod cols, within the grid; no two images
\* share a (page, row, col); (row, col) repeats with period perPage.
C2_SlotAssignment ==
    InMakePdf
    => /\ \A k \in Draws :
            LET n == ops[k].img - 1
            IN  /\ ops[k].page = PlannedPage(n)
                /\ ops[k].row = PlannedRow(n)
                /\ ops[k].col = PlannedCol(n)
                /\ ops[k].row \in 0..(rows - 1)
                /\ ops[k].col \in 0..(cols - 1)
                /\ ops[k].x = x0 + ops[k].col * Dx(gap_mm)
                /\ ops[k].y = y0 + (rows - 1 - ops[k].row) * Dy(gap_mm)
       /\ \A k1, k2 \in Draws :
            /\ k1 < k2 => ops[k1].img < ops[k2].img
            /\ (k1 # k2) =>
                 <<ops[k1].page, ops[k1].row, ops[k1].col>>
                   # <<ops[k2].page, ops[k2].row, ops[k2].col>>
            /\ (ops[k2].img = ops[k1].img + per_page) =>
                 /\ ops[k2].row = ops[k1].row /\ ops[k2].col = ops[k1].col
                 /\ ops[k2].page = ops[k1].page + 1
       /\ Cardinality(Draws) = idx

\* C2 witness: a 1 x 2 grid; the fourth image sits on the second page in the
\* second column
C2_Witness ==
    /\ Returned /\ rows = 1 /\ cols = 2
    /\ \E k \in Draws :
         /\ ops[k].img = 4 /\ ops[k].page = 1 /\ ops[k].row = 0 /\ ops[k].col = 1

\* C6: on every page each enabled decorator is applied exactly once, after
\* the page is opened and before the first image draw of the page; no
\* decorator draw comes after an image draw of the same page.
C6_DecoratorsOncePerPageBeforeImages ==
    InMakePdf
    => /\ \A p \in DrawnPages :
            /\ Cardinality(OpsOn("draw_black_borders", p))
                 = (IF black_borders THEN 1 ELSE 0)
            /\ Cardinality(OpsOn("draw_crop_marks", p))
                 = (IF cropmarks THEN rows * cols ELSE 0)
       /\ \A d \in Decorators :
            /\ \E o \in OpsOn("openPage", ops[d].page) : o < d
            /\ \A k \in OpsOn("drawImage", ops[d].page) : d < k
            /\ \A b \in OpsOn("showPage", ops[d].page) : d < b
       /\ \A d1 \in OpsOf("draw_black_borders"), d2 \in OpsOf("draw_crop_marks") :
            ops[d1].page = ops[d2].page => d1 < d2

\* C6 witness: both decorators enabled, two pages drawn
C6_Witness ==
    /\ Returned /\ black_borders /\ cropmarks
    /\ PagesOpened = 2
    /\ Cardinality(OpsOf("draw_black_borders")) = 2
    /\ OpsOn("drawImage", 1) # {}

\* the pages whose decoration is complete
DecoratedPages ==
    {p \in OpenedPages : pc # "decorate" \/ p < pageNumber}

\* C7: with crop marks enabled every page opened, a partly filled last page
\* included, gets crop marks for exactly rows*cols cells, each grid position
\* exactly once, however many images the page holds.
C7_CropMarksForWholeGrid ==
    (InMakePdf /\ cropmarks)
    => \A p \in DecoratedPages :
         /\ Cardinality(OpsOn("draw_crop_marks", p)) = rows * cols
         /\ \A r \in 0..(rows - 1), c \in 0..(cols - 1) :
              Cardinality({k \in OpsOn("draw_crop_marks", p) :
                             /\ ops[k].row = r /\ ops[k].col = c
                             /\ ops[k].x = x0 + c * Dx(gap_mm)
                             /\ ops[k].y = y0 + (rows - 1 - r) * Dy(gap_mm)
                             /\ ops[k].n = CropLines}) = 1

\* C7 witness: a 2 x 2 grid whose second page holds one image and four sets
\* of crop marks
C7_Witness ==
    /\ Returned /\ cropmarks /\ rows = 2 /\ cols = 2
    /\ Cardinality(OpsOn("drawImage", 1)) = 1
    /\ Cardinality(OpsOn("draw_crop_marks", 1)) = 4

FailedDraws == {k \in Draws : ~ops[k].ok}

\* C8: a failed draw leaves its slot empty and still advances the slot index:
\* page breaks and every image's (page, row, col) are those of the run with
\* no failures, and the returned rows, cols and perPage are unchanged.
C8_FailuresKeepSlots ==
    InMakePdf
    => /\ i = idx
       /\ \A k \in FailedDraws :
            /\ ops[k].img \in unloadable
            /\ \A k2 \in Draws \ {k} :
                 <<ops[k2].page, ops[k2].row, ops[k2].col>>
                   # <<ops[k].page, ops[k].row, ops[k].col>>
       /\ \A k \in Draws :
            LET s == SlotOf(ops[k].img - 1, rows, cols)
            IN  /\ ops[k].ok <=> ops[k].img \notin unloadable
                /\ ops[k].page = (ops[k].img - 1) \div (rows * cols)
                /\ ops[k].row = s.row /\ ops[k].col = s.col
       /\ warnings = Cardinality(FailedDraws)
       /\ pc \notin {"decorate", "place"}
          => Cardinality(OpsOf("showPage")) = Max(0, CeilDiv(idx, per_page) - 1)
       /\ Returned =>
            LET g == compute_grid(page_w, page_h, margin_mm, gap_mm, orientation)
            IN  result = <<g.rows, g.cols, g.rows * g.cols>>

\* C8 witness: the second of four images fails on a 1 x 2 grid; the third
\* opens the second page
C8_Witness ==
    /\ Returned /\ rows = 1 /\ cols = 2 /\ unloadable = {2} /\ Len(images) = 4
    /\ \E k \in Draws : ops[k].img = 3 /\ ops[k].page = 1 /\ ops[k].col = 0 /\ ops[k].ok

\* the Assembler's state
Lifecycle ==
    IF Saved THEN "Closed"
    ELSE IF OpsOf("openPage") # {} THEN "Paging" ELSE "Empty"

\* C9: a run goes Empty -> Paging -> Closed and finalizes the document exactly
\* once, after the last image was attempted and never before: with an empty
\* input (no page opened), with a partly filled last page (no padding draws)
\* and with any number of load failures (none aborts the run).
C9_FinalizedOnceAtTheEnd ==
    /\ pc \in {"main", "exit", "make_pdf", "loop", "decorate", "place", "report", "done"}
    /\ InMakePdf
       => /\ Cardinality(OpsOf("save")) <= 1
          /\ Saved <=> Returned
          /\ Saved => /\ ops[Len(ops)].op = "save"
                      /\ idx = Len(images)
                      /\ {ops[k].img : k \in Draws} = 1..Len(images)
                      /\ Cardinality(Draws) = Len(images)
          /\ ~Saved => ENABLED Next
          /\ (Saved /\ images = <<>>) => OpsOf("openPage") = {}
          /\ Lifecycle = "Empty" => Draws = {}
          /\ pc \in {"decorate", "place"} => Lifecycle = "Paging"

\* C9 witness: five images on a 2 x 2 grid, three of them unloadable, saved
C9_Witness ==
    /\ pc = "done" /\ Lifecycle = "Closed"
    /\ per_page = 4 /\ Len(images) = 5 /\ warnings = 3

\* C10: in rotated mode the frame applied after every page break is the frame
\* of the first page, with the same translation offset, so a grid slot maps
\* to the same page position on every page.
C10_SameFrameOnEveryPage ==
    (InMakePdf /\ rotated)
    => /\ \A t1, t2 \in OpsOf("translate") :
            ops[t1].x = ops[t2].x /\ ops[t1].y = ops[t2].y
       /\ \A k1, k2 \in Draws :
            (ops[k1].row = ops[k2].row /\ ops[k1].col = ops[k2].col)
            => ops[k1].dev = ops[k2].dev

====
